---- MODULE Spec2Model ----
(***************************************************************************)
(* Model of the rule-based language layer of the maintenance bot           *)
(* (app/nlu.py): the text normalizer, the greeting classifier, the intent  *)
(* matcher, the date-expression resolver and the slot extractor.           *)
(*                                                                         *)
(* Texts are TLA+ strings and every matcher works on the characters of     *)
(* the string, as the Python code does: `w in t` is a substring search,    *)
(* \b is a boundary between a \w and a non-\w character, re.sub removes    *)
(* leftmost non-overlapping matches.  ISO dates are strings as well, built *)
(* by zero-padded formatting and compared lexicographically.               *)
(***************************************************************************)
EXTENDS Integers, Sequences, FiniteSets, TLC

VARIABLES
    text,       \* the raw message text handed to the functions
    now,        \* datetime.utcnow() of this message, as <<year, month, day>>
    pc,         \* which function is applied next
    normed,     \* _norm(text)
    renormed,   \* _norm(_norm(text))
    greeting,   \* is_greeting(text)
    intent,     \* name returned by detect_intent(text)
    ret_line,   \* source line of the return statement detect_intent took
    slots,      \* dict returned by extract_slots(text), or None
    raised,     \* exception that escaped extract_slots, or None
    date_rule,  \* rule of _apply_date_pattern that fired (0 = none)
    reply,      \* what telegram_webhook answered to the message
    passed,     \* the slots handed to a function of data.py (at most one)
    report_time,  \* column report_time of user_sessions, per chat
    jobs,       \* jobs of the scheduler, as records [id, hour, minute]
    reports,    \* daily reports the scheduler has sent, per chat
    subscribed,   \* the chat sent /subscribe and no /unsubscribe since
    unsubscribed  \* the chat sent /unsubscribe and no /subscribe or
                  \* /setreport since

hook_vars == <<reply, passed>>

sched_vars == <<report_time, jobs, reports, subscribed, unsubscribed>>

vars == <<text, now, pc, normed, renormed, greeting, intent, ret_line,
          slots, raised, date_rule, reply, passed, report_time, jobs,
          reports, subscribed, unsubscribed>>

None == "None"

(***************************************************************************)
(* Characters                                                              *)
(***************************************************************************)
\* The combining marks U+0301 (acute) and U+0303 (tilde), category Mn.  A
\* string literal cannot hold a combining character, so each is written
\* as its spacing form; the model uses these two characters for nothing else.
Acute == "´"
Tilde == "~"
MnChars == {Acute, Tilde}

WhitespaceChars == {" ", "\t", "\n"}

UpperChars == "ABCDEFGHIJKLMNOPQRSTUVWXYZÁÉÍÓÚÑ"
LowerChars == "abcdefghijklmnopqrstuvwxyzáéíóúñ"
Digits == "0123456789"

CharAt(s, i) == IF i >= 1 /\ i <= Len(s) THEN SubSeq(s, i, i) ELSE ""

CharsOf(s) == {SubSeq(s, i, i) : i \in 1..Len(s)}

IndexIn(c, s) == CHOOSE i \in 1..Len(s) : SubSeq(s, i, i) = c

UpperSet == CharsOf(UpperChars)
LowerSet == CharsOf(LowerChars)
DigitSet == CharsOf(Digits)

\* str.lower() on one character
LowerChar(c) ==
    IF c \in UpperSet THEN CharAt(LowerChars, IndexIn(c, UpperChars)) ELSE c

\* str.upper() on one character
UpperChar(c) ==
    IF c \in LowerSet THEN CharAt(UpperChars, IndexIn(c, LowerChars)) ELSE c

\* the base letter and the combining mark of a precomposed letter
Decomposed ==
    [c \in CharsOf("áéíóúñÁÉÍÓÚÑ") |->
        CASE c = "á" -> "a" \o Acute
          [] c = "é" -> "e" \o Acute
          [] c = "í" -> "i" \o Acute
          [] c = "ó" -> "o" \o Acute
          [] c = "ú" -> "u" \o Acute
          [] c = "ñ" -> "n" \o Tilde
          [] c = "Á" -> "A" \o Acute
          [] c = "É" -> "E" \o Acute
          [] c = "Í" -> "I" \o Acute
          [] c = "Ó" -> "O" \o Acute
          [] c = "Ú" -> "U" \o Acute
          [] c = "Ñ" -> "N" \o Tilde]

\* unicodedata.normalize("NFD", c) on one character
NFDChar(c) == IF c \in DOMAIN Decomposed THEN Decomposed[c] ELSE c

IsSpace(c) == c \in WhitespaceChars
IsDigit(c) == c \in DigitSet
\* \w of a str pattern: alphanumerics and underscore (a combining mark is not)
IsWordChar(c) == c \in LowerSet \/ c \in UpperSet \/ c \in DigitSet \/ c = "_"

(***************************************************************************)
(* _norm                                                                   *)
(***************************************************************************)
\* The character-wise passes split the string in halves, so that the depth
\* of the evaluation grows with the logarithm of the length.
RECURSIVE Lower(_)
Lower(s) ==
    IF Len(s) <= 1 THEN LowerChar(s)
    ELSE Lower(SubSeq(s, 1, Len(s) \div 2))
         \o Lower(SubSeq(s, (Len(s) \div 2) + 1, Len(s)))

RECURSIVE LStrip(_)
LStrip(s) == IF s # "" /\ IsSpace(Head(s)) THEN LStrip(Tail(s)) ELSE s

RECURSIVE RStrip(_)
RStrip(s) ==
    IF s # "" /\ IsSpace(CharAt(s, Len(s)))
    THEN RStrip(SubSeq(s, 1, Len(s) - 1))
    ELSE s

\* str.strip()
Strip(s) == RStrip(LStrip(s))

RECURSIVE NFD(_)
NFD(s) ==
    IF Len(s) <= 1 THEN NFDChar(s)
    ELSE NFD(SubSeq(s, 1, Len(s) \div 2))
         \o NFD(SubSeq(s, (Len(s) \div 2) + 1, Len(s)))

\* "".join(ch for ch in s if unicodedata.category(ch) != "Mn")
RECURSIVE DropMn(_)
DropMn(s) ==
    IF Len(s) <= 1 THEN (IF s \in MnChars THEN "" ELSE s)
    ELSE DropMn(SubSeq(s, 1, Len(s) \div 2))
         \o DropMn(SubSeq(s, (Len(s) \div 2) + 1, Len(s)))

\* what re.sub(r"\s+", " ", s) leaves of s[lo..hi]: the first character of
\* a run of whitespace becomes a space, the rest of the run disappears
RECURSIVE CollapseRange(_, _, _)
CollapseRange(s, lo, hi) ==
    IF lo > hi THEN ""
    ELSE IF lo = hi
    THEN (IF ~IsSpace(CharAt(s, lo)) THEN CharAt(s, lo)
          ELSE IF IsSpace(CharAt(s, lo - 1)) THEN "" ELSE " ")
    ELSE CollapseRange(s, lo, (lo + hi) \div 2)
         \o CollapseRange(s, ((lo + hi) \div 2) + 1, hi)

\* re.sub(r"\s+", " ", s)
CollapseWs(s) == CollapseRange(s, 1, Len(s))

_norm(s) == CollapseWs(DropMn(NFD(Strip(Lower(s)))))

(***************************************************************************)
(* Matching primitives                                                     *)
(***************************************************************************)
\* w occurs in s starting at position i
OccursAt(w, s, i) ==
    i >= 1 /\ i + Len(w) - 1 <= Len(s) /\ SubSeq(s, i, i + Len(w) - 1) = w

\* Python's `w in s`
Contains(w, s) == \E i \in 1..(Len(s) - Len(w) + 1) : OccursAt(w, s, i)

\* \bw\b matches at i, for a literal w that starts and ends with \w
\* characters: the neighbours of the occurrence are not \w characters
WordAt(w, s, i) ==
    /\ OccursAt(w, s, i)
    /\ ~IsWordChar(CharAt(s, i - 1))
    /\ ~IsWordChar(CharAt(s, i + Len(w)))

\* start positions of the matches of \b(w1|w2|...)\b
WordStarts(ws, s) == {i \in 1..Len(s) : \E w \in ws : WordAt(w, s, i)}

\* <<start, end>> of every match of \b(w1|w2|...)\b
WordSpans(ws, s) ==
    UNION {{<<i, i + Len(w) - 1>> : i \in {j \in 1..Len(s) : WordAt(w, s, j)}}
           : w \in ws}

\* re.search(r"\b(w1|w2|...)\b", s) is not None
WordSearch(ws, s) == \E w \in ws : \E i \in 1..Len(s) : WordAt(w, s, i)

\* "." matches every character but a newline: s[a..b] can be taken by ".*"
DotRun(s, a, b) == \A i \in a..b : CharAt(s, i) # "\n"

\* first position at or after i that does not hold whitespace (greedy \s*)
RECURSIVE SkipWs(_, _)
SkipWs(s, i) == IF IsSpace(CharAt(s, i)) THEN SkipWs(s, i + 1) ELSE i

\* positions j such that s[i..j-1] is whitespace only (every way \s* can match)
WsEnds(s, i) == i..SkipWs(s, i)

\* end positions (exclusive) of the matches, starting at i, of the literals
\* of parts joined by \s*
RECURSIVE PartsEnds(_, _, _)
PartsEnds(parts, s, i) ==
    IF ~OccursAt(parts[1], s, i) THEN {}
    ELSE IF Len(parts) = 1 THEN {i + Len(parts[1])}
    ELSE UNION {PartsEnds(Tail(parts), s, j) : j \in WsEnds(s, i + Len(parts[1]))}

\* re.search(r"\b(p1\s*p2...)\b", s) is not None
PartsSearch(parts, s) ==
    \E i \in 1..Len(s) :
        /\ ~IsWordChar(CharAt(s, i - 1))
        /\ \E e \in PartsEnds(parts, s, i) : ~IsWordChar(CharAt(s, e))

(***************************************************************************)
(* Greetings and farewells                                                 *)
(***************************************************************************)
GREETINGS ==
    <<"hola", "buenas", "buenos dias", "buen dia", "buenas tardes",
      "buenas noches", "que puedes hacer", "ayuda", "help", "/start", "/help">>

FAREWELLS ==
    <<"gracias", "nos vemos", "bye", "adios", "hasta luego", "hasta pronto",
      "hasta manana", "hasta mañana", "chao", "me despido">>

\* any(w in t for w in L)
AnyIn(L, t) == \E k \in 1..Len(L) : Contains(L[k], t)

\* variant: the phrases are looked for in the text as received
is_greeting_raw(s) == AnyIn(GREETINGS, s)

is_greeting(s) == AnyIn(GREETINGS, _norm(s))

is_farewell(s) == AnyIn(FAREWELLS, _norm(s))

(***************************************************************************)
(* Months and technicians                                                  *)
(***************************************************************************)
\* the dict MONTHS in insertion order, as <<name, number>> pairs
MONTHS ==
    << <<"enero", 1>>, <<"febrero", 2>>, <<"marzo", 3>>, <<"abril", 4>>,
       <<"mayo", 5>>, <<"junio", 6>>, <<"julio", 7>>, <<"agosto", 8>>,
       <<"septiembre", 9>>, <<"setiembre", 9>>, <<"octubre", 10>>,
       <<"noviembre", 11>>, <<"diciembre", 12>> >>

TECHS == <<"andres", "esteban", "juan", "sebastian", "mateo", "jose", "pablo">>

\* the three spellings of the order noun in the patterns
ORDER_NOUNS == {"ordenes", "órdenes", "ots"}

(***************************************************************************)
(* Intents                                                                 *)
(***************************************************************************)
\* the alternatives of FILLER in the order the regex tries them;
\* muestr(?:a|ame) tries "muestra" before "muestrame"
FILLER ==
    <<"dime", "muestra", "muestrame", "podrias", "puedes", "por favor",
      "como esta", "cual es", "indica", "reporta", "quiero saber", "me dices">>

\* the alternative of FILLER that matches s at position i (0 = none)
FillerAt(s, i) ==
    IF \E k \in 1..Len(FILLER) : OccursAt(FILLER[k], s, i)
    THEN CHOOSE k \in 1..Len(FILLER) :
            /\ OccursAt(FILLER[k], s, i)
            /\ \A j \in 1..(k - 1) : ~OccursAt(FILLER[j], s, i)
    ELSE 0

\* re.sub(FILLER, "", s) from position i on: the leftmost match at or after
\* i is removed and the scan goes on behind it
RECURSIVE StripFillerFrom(_, _)
StripFillerFrom(s, i) ==
    LET M == {j \in i..Len(s) : FillerAt(s, j) # 0}
    IN  IF M = {} THEN SubSeq(s, i, Len(s))
        ELSE LET j == CHOOSE x \in M : \A y \in M : x <= y
             IN  SubSeq(s, i, j - 1)
                 \o StripFillerFrom(s, j + Len(FILLER[FillerAt(s, j)]))

StripFiller(s) == StripFillerFrom(s, 1)

\* \b(A)\b.*\b(B)\b.*    continued after a match that ended before `from`
RECURSIVE ChainFrom(_, _, _)
ChainFrom(sets, s, from) ==
    IF sets = <<>> THEN TRUE
    ELSE \E sp \in WordSpans(sets[1], s) :
            /\ sp[1] >= from
            /\ DotRun(s, from, sp[1] - 1)
            /\ ChainFrom(Tail(sets), s, sp[2] + 1)

\* re.search(r"\b(A)\b.*\b(B)\b...", s) is not None
ChainSearch(sets, s) ==
    \E sp \in WordSpans(sets[1], s) : ChainFrom(Tail(sets), s, sp[2] + 1)

\* cuant[ao]s?
CUANTOS == {"cuanta", "cuanto", "cuantas", "cuantos"}

\* abiert[as]?|cerrad[as]?|progreso|en progreso|totales?
\* ([as]? is at most one of the characters a, s)
STATUS_WORDS ==
    {"abiert", "abierta", "abierts", "cerrad", "cerrada", "cerrads",
     "progreso", "en progreso", "totale", "totales"}

\* the values of the dict INTENTS, in insertion order
INTENTS ==
    <<"MTTR", "MTBF", "PM_COMPLIANCE", "BACKLOG", "COSTS", "TOP_DOWNTIME",
      "STATUS_COUNTS", "TECH_BY_PERSON", "STATUS_COUNTS">>

\* re.search(pat, s) for the k-th key of INTENTS
PatMatch(k, s) ==
    CASE k = 1 -> WordSearch({"mttr", "tiempo medio de reparacion"}, s)
      [] k = 2 -> WordSearch({"mtbf", "tiempo medio entre fallas"}, s)
      [] k = 3 -> \/ PartsSearch(<<"cumplimiento", "pm">>, s)
                  \/ WordSearch({"pm compliance"}, s)
                  \/ \E p \in {"preventivo", "preventiva",
                               "preventivos", "preventivas"} :
                        PartsSearch(<<p, "cumplimiento">>, s)
                  \/ PartsSearch(<<"cumplimiento", "de", "pm">>, s)
      [] k = 4 -> WordSearch({"backlog", "atraso"}, s)
      [] k = 5 -> WordSearch({"costo", "costos", "gasto", "gastos"}, s)
      [] k = 6 -> WordSearch({"paradas", "downtime", "tiempo muerto",
                              "top downtime"}, s)
      [] k = 7 -> WordSearch({"estado", "estados", "conteo", "conteos"}, s)
      [] k = 8 -> ChainSearch(<<CUANTOS, ORDER_NOUNS, {"tiene"}>>, s)
      [] k = 9 -> ChainSearch(<<CUANTOS, ORDER_NOUNS, STATUS_WORDS, {"hay"}>>, s)

\* variant: the loop keeps going and the last pattern that matches wins
RECURSIVE LastMatch(_, _)
LastMatch(s, k) ==
    IF k > Len(INTENTS) THEN 0
    ELSE IF LastMatch(s, k + 1) # 0 THEN LastMatch(s, k + 1)
    ELSE IF PatMatch(k, s) THEN k
    ELSE 0

\* the loop over INTENTS.items(): index of the first pattern, from k on,
\* that matches (0 = the loop ends without a return)
RECURSIVE FirstMatch(_, _)
FirstMatch(s, k) ==
    IF k > Len(INTENTS) THEN 0
    ELSE IF PatMatch(k, s) THEN k
    ELSE FirstMatch(s, k + 1)

\* variant: the fallback wants the name as a whole word and an order state
\* the slot extractor knows
FallbackAsExtractor(t) ==
    /\ \E k \in 1..Len(TECHS) : WordSearch({TECHS[k]}, t)
    /\ (Contains("abiert", t) \/ Contains("cerrad", t))

\* the test of the fallback: a technician name somewhere in t and one of
\* the stems of an order state
Fallback(t) ==
    /\ AnyIn(TECHS, t)
    /\ (Contains("abiert", t) \/ Contains("cerrad", t) \/ Contains("progreso", t))

\* variant: the pattern table is consulted before the order-noun override
detect_intent_table_first(s) ==
    LET t == _norm(s)
        has_orders == WordSearch(ORDER_NOUNS, t)
        mentions_tech == AnyIn(TECHS, t)
        t2 == StripFiller(t)
        k == FirstMatch(t2, 1)
    IN  IF AnyIn(GREETINGS, t)
        THEN [name |-> "HELP", line |-> 63]
        ELSE IF k # 0
        THEN [name |-> INTENTS[k], line |-> 77]
        ELSE IF has_orders /\ ~mentions_tech
        THEN [name |-> "STATUS_COUNTS", line |-> 71]
        ELSE IF Fallback(t)
        THEN [name |-> "TECH_BY_PERSON", line |-> 81]
        ELSE [name |-> "HELP", line |-> 84]

\* detect_intent, with the line of the return statement taken
detect_intent(s) ==
    LET t == _norm(s)
        has_orders == WordSearch(ORDER_NOUNS, t)
        mentions_tech == AnyIn(TECHS, t)
        t2 == StripFiller(t)
        k == FirstMatch(t2, 1)
    IN  IF AnyIn(GREETINGS, t)
        THEN [name |-> "HELP", line |-> 63]
        ELSE IF has_orders /\ ~mentions_tech
        THEN [name |-> "STATUS_COUNTS", line |-> 71]
        ELSE IF k # 0
        THEN [name |-> INTENTS[k], line |-> 77]
        ELSE IF Fallback(t)
        THEN [name |-> "TECH_BY_PERSON", line |-> 81]
        ELSE [name |-> "HELP", line |-> 84]

(***************************************************************************)
(* Calendar (datetime.date): proleptic Gregorian dates <<year, month, day>>*)
(***************************************************************************)
MINYEAR == 1
MAXYEAR == 9999
\* largest number of days a timedelta holds
MaxDeltaDays == 999999999

IsLeap(y) == y % 4 = 0 /\ (y % 100 # 0 \/ y % 400 = 0)

DaysInMonth(y, m) ==
    IF m = 2 THEN (IF IsLeap(y) THEN 29 ELSE 28)
    ELSE IF m \in {4, 6, 9, 11} THEN 30 ELSE 31

\* days before January 1st of year y
DaysBeforeYear(y) ==
    (y - 1) * 365 + ((y - 1) \div 4) - ((y - 1) \div 100) + ((y - 1) \div 400)

RECURSIVE DaysBeforeMonth(_, _)
DaysBeforeMonth(y, m) ==
    IF m = 1 THEN 0 ELSE DaysBeforeMonth(y, m - 1) + DaysInMonth(y, m - 1)

\* date.toordinal(): 0001-01-01 is day 1
ToOrdinal(d) == DaysBeforeYear(d[1]) + DaysBeforeMonth(d[1], d[2]) + d[3]

MaxOrdinal == ToOrdinal(<<MAXYEAR, 12, 31>>)

\* year holding ordinal n: the estimate n \div 366 + 1 is never too large
RECURSIVE YearOf(_, _)
YearOf(n, y) == IF DaysBeforeYear(y + 1) >= n THEN y ELSE YearOf(n, y + 1)

\* date.fromordinal(n), for 1 <= n <= MaxOrdinal
FromOrdinal(n) ==
    LET y == YearOf(n, ((n - 1) \div 366) + 1)
        r == n - DaysBeforeYear(y)
        m == CHOOSE k \in 1..12 :
                 /\ DaysBeforeMonth(y, k) < r
                 /\ r <= DaysBeforeMonth(y, k) + DaysInMonth(y, k)
    IN  <<y, m, r - DaysBeforeMonth(y, m)>>

\* date.weekday(): Monday is 0
Weekday(d) == (ToOrdinal(d) + 6) % 7

\* zero-padded decimal of n >= 0, at least w characters wide
RECURSIVE Pad(_, _)
Pad(n, w) ==
    IF n < 10 /\ w <= 1 THEN SubSeq(Digits, n + 1, n + 1)
    ELSE Pad(n \div 10, w - 1) \o SubSeq(Digits, (n % 10) + 1, (n % 10) + 1)

\* date.isoformat()
IsoFormat(d) == Pad(d[1], 4) \o "-" \o Pad(d[2], 2) \o "-" \o Pad(d[3], 2)

\* int(s) for a run of decimal digits.  Every value above MaxDeltaDays is
\* treated alike by the one caller that can receive it, so the conversion
\* saturates at MaxDeltaDays + 1.
RECURSIVE ParseInt(_)
ParseInt(s) ==
    IF s = "" THEN 0
    ELSE LET hi == ParseInt(SubSeq(s, 1, Len(s) - 1))
             lo == IndexIn(CharAt(s, Len(s)), Digits) - 1
         IN  IF hi > MaxDeltaDays \div 10 THEN MaxDeltaDays + 1
             ELSE hi * 10 + lo

\* d - timedelta(days = n) for 0 <= n: the date, or the error raised
MinusDays(d, n) ==
    IF n > MaxDeltaDays THEN [raised |-> "OverflowError", date |-> d]
    ELSE IF ToOrdinal(d) - n < 1 THEN [raised |-> "OverflowError", date |-> d]
    ELSE [raised |-> None, date |-> FromOrdinal(ToOrdinal(d) - n)]

(***************************************************************************)
(* Dates in the text                                                       *)
(***************************************************************************)
AllDigits(s) == \A i \in 1..Len(s) : IsDigit(CharAt(s, i))

\* end (exclusive) of the run of digits that starts at i
RECURSIVE SkipDigits(_, _)
SkipDigits(s, i) == IF IsDigit(CharAt(s, i)) THEN SkipDigits(s, i + 1) ELSE i

\* \d{4}-\d{2}-\d{2} matches s at i
IsoShapeAt(s, i) ==
    /\ i + 9 <= Len(s)
    /\ AllDigits(SubSeq(s, i, i + 3)) /\ CharAt(s, i + 4) = "-"
    /\ AllDigits(SubSeq(s, i + 5, i + 6)) /\ CharAt(s, i + 7) = "-"
    /\ AllDigits(SubSeq(s, i + 8, i + 9))

Min(S) == CHOOSE x \in S : \A y \in S : x <= y

\* the result of _month_range_from_name(t) at the first month name of
\* MONTHS, from index k on, that occurs in t as a whole word
RECURSIVE MonthRangeFrom(_, _, _)
MonthRangeFrom(t, today, k) ==
    IF k > Len(MONTHS)
    THEN [found |-> FALSE, raised |-> None, date_from |-> None, date_to |-> None]
    ELSE IF ~WordSearch({MONTHS[k][1]}, t) THEN MonthRangeFrom(t, today, k + 1)
    ELSE
      LET name == MONTHS[k][1]
          m == MONTHS[k][2]
          i == Min(WordStarts({name}, t))          \* leftmost match
          e == i + Len(name)
          j == SkipWs(t, e)                        \* (?:\s+(\d{4}))?
          has_year == j > e /\ j + 3 <= Len(t) /\ AllDigits(SubSeq(t, j, j + 3))
          y == IF has_year THEN ParseInt(SubSeq(t, j, j + 3)) ELSE today[1]
          \* date(y + 1, 1, 1) or date(y, m + 1, 1)
          ny == IF m = 12 THEN y + 1 ELSE y
          nm == IF m = 12 THEN 1 ELSE m + 1
      IN  IF y < MINYEAR \/ y > MAXYEAR \/ ny > MAXYEAR
          THEN [found |-> TRUE, raised |-> "ValueError",
                date_from |-> None, date_to |-> None]
          ELSE [found |-> TRUE, raised |-> None,
                date_from |-> IsoFormat(<<y, m, 1>>),
                date_to |-> IsoFormat(MinusDays(<<ny, nm, 1>>, 1).date)]

_month_range_from_name(t, today) == MonthRangeFrom(t, today, 1)

\* end (exclusive) of "ultimos" or "ultimo" at i, then \s+ (0 = no match)
UltimosHead(s, i) ==
    LET e == IF OccursAt("ultimos", s, i) THEN i + 7
             ELSE IF OccursAt("ultimo", s, i) THEN i + 6 ELSE 0
    IN  IF e = 0 \/ IsWordChar(CharAt(s, i - 1)) THEN 0
        ELSE IF SkipWs(s, e) > e THEN SkipWs(s, e) ELSE 0

\* \bultimos?\s+(\d+)\s+dias\b matches s at i
UltimosAt(s, i) ==
    LET a == UltimosHead(s, i)
        b == SkipDigits(s, a)
        c == SkipWs(s, b)
    IN  /\ a # 0 /\ b > a /\ c > b
        /\ OccursAt("dias", s, c) /\ ~IsWordChar(CharAt(s, c + 4))

\* \bdesde\s+(\d{4}-\d{2}-\d{2})\s+hasta\s+(\d{4}-\d{2}-\d{2})\b matches at i
DesdeAt(s, i) ==
    LET a == SkipWs(s, i + 5)
        b == SkipWs(s, a + 10)
        c == SkipWs(s, b + 5)
    IN  /\ OccursAt("desde", s, i) /\ ~IsWordChar(CharAt(s, i - 1))
        /\ a > i + 5 /\ IsoShapeAt(s, a)
        /\ b > a + 10 /\ OccursAt("hasta", s, b)
        /\ c > b + 5 /\ IsoShapeAt(s, c) /\ ~IsWordChar(CharAt(s, c + 10))

\* the dict a branch of _apply_date_pattern returns
DateRange(r, f, l) ==
    [rule |-> r, raised |-> None, date_from |-> f, date_to |-> l]

\* a branch of _apply_date_pattern that raises
DateError(r, e) ==
    [rule |-> r, raised |-> e, date_from |-> None, date_to |-> None]

\* "este mes": now.replace(day=1) .. now
EsteMes(today) ==
    DateRange(2, IsoFormat(<<today[1], today[2], 1>>), IsoFormat(today))

\* "mes pasado": first and last day of the month before
MesPasado(today) ==
    LET last_prev == MinusDays(<<today[1], today[2], 1>>, 1).date
    IN  DateRange(3, IsoFormat(<<last_prev[1], last_prev[2], 1>>),
                     IsoFormat(last_prev))

\* "esta semana": now - timedelta(days=now.weekday()) .. now
EstaSemana(today) ==
    DateRange(4, IsoFormat(MinusDays(today, Weekday(today)).date),
                 IsoFormat(today))

\* variant: the seven days before `today`
SemanaPasadaRolling(today) ==
    DateRange(5, IsoFormat(MinusDays(today, 7).date),
                 IsoFormat(MinusDays(today, 1).date))

\* "semana pasada": the seven days before start_this
SemanaPasada(today) ==
    LET start_this == MinusDays(today, Weekday(today)).date
    IN  DateRange(5, IsoFormat(MinusDays(start_this, 7).date),
                     IsoFormat(MinusDays(start_this, 1).date))

\* variant: a window of N days that ends with, and counts, `today`
UltimosInclusive(t, today) ==
    LET a == UltimosHead(t, Min({i \in 1..Len(t) : UltimosAt(t, i)}))
        n == ParseInt(SubSeq(t, a, SkipDigits(t, a) - 1))
        from == MinusDays(today, IF n > 0 THEN n - 1 ELSE 0)
    IN  IF from.raised # None THEN DateError(6, from.raised)
        ELSE DateRange(6, IsoFormat(from.date), IsoFormat(today))

\* "ultimos N dias", for the leftmost match of the pattern
Ultimos(t, today) ==
    LET a == UltimosHead(t, Min({i \in 1..Len(t) : UltimosAt(t, i)}))
        n == ParseInt(SubSeq(t, a, SkipDigits(t, a) - 1))
        from == MinusDays(today, n)
    IN  IF from.raised # None THEN DateError(6, from.raised)
        ELSE DateRange(6, IsoFormat(from.date), IsoFormat(today))

\* "desde X hasta Y": the two groups of the leftmost match, verbatim
Desde(t) ==
    LET a == SkipWs(t, Min({i \in 1..Len(t) : DesdeAt(t, i)}) + 5)
        c == SkipWs(t, SkipWs(t, a + 10) + 5)
    IN  DateRange(7, SubSeq(t, a, a + 9), SubSeq(t, c, c + 9))

\* the test that guards branch r of _apply_date_pattern
Trigger(r, t) ==
    CASE r = 1 -> \E k \in 1..Len(MONTHS) : WordSearch({MONTHS[k][1]}, t)
      [] r = 2 -> WordSearch({"este mes"}, t)
      [] r = 3 -> WordSearch({"mes pasado"}, t)
      [] r = 4 -> WordSearch({"esta semana"}, t)
      [] r = 5 -> WordSearch({"semana pasada"}, t)
      [] r = 6 -> \E i \in 1..Len(t) : UltimosAt(t, i)
      [] r = 7 -> \E i \in 1..Len(t) : DesdeAt(t, i)

\* variant: "mes pasado" is tested before "este mes"
_apply_date_pattern_swapped(t, today) ==
    LET mr == _month_range_from_name(t, today)
    IN  IF mr.found
        THEN [rule |-> 1, raised |-> mr.raised,
              date_from |-> mr.date_from, date_to |-> mr.date_to]
        ELSE IF Trigger(3, t) THEN MesPasado(today)
        ELSE IF Trigger(2, t) THEN EsteMes(today)
        ELSE IF Trigger(4, t) THEN EstaSemana(today)
        ELSE IF Trigger(5, t) THEN SemanaPasada(today)
        ELSE IF Trigger(6, t) THEN Ultimos(t, today)
        ELSE IF Trigger(7, t) THEN Desde(t)
        ELSE DateRange(0, None, None)

\* _apply_date_pattern(t) called at the instant `today`; rule is the number
\* of the branch that was taken (1 named month ... 7 desde/hasta, 0 none)
_apply_date_pattern(t, today) ==
    LET mr == _month_range_from_name(t, today)
    IN  IF mr.found
        THEN [rule |-> 1, raised |-> mr.raised,
              date_from |-> mr.date_from, date_to |-> mr.date_to]
        ELSE IF Trigger(2, t) THEN EsteMes(today)
        ELSE IF Trigger(3, t) THEN MesPasado(today)
        ELSE IF Trigger(4, t) THEN EstaSemana(today)
        ELSE IF Trigger(5, t) THEN SemanaPasada(today)
        ELSE IF Trigger(6, t) THEN Ultimos(t, today)
        ELSE IF Trigger(7, t) THEN Desde(t)
        ELSE DateRange(0, None, None)

(***************************************************************************)
(* Slots                                                                   *)
(***************************************************************************)
\* str.capitalize()
Capitalize(s) ==
    IF s = "" THEN "" ELSE UpperChar(Head(s)) \o Lower(Tail(s))

\* variant: a name counts wherever it occurs, inside a longer word too
RECURSIVE FirstTechSubstring(_, _)
FirstTechSubstring(t, k) ==
    IF k > Len(TECHS) THEN None
    ELSE IF Contains(TECHS[k], t) THEN Capitalize(TECHS[k])
    ELSE FirstTechSubstring(t, k + 1)

\* the loop over TECHS: first name, from k on, that is a whole word of t
RECURSIVE FirstTech(_, _)
FirstTech(t, k) ==
    IF k > Len(TECHS) THEN None
    ELSE IF WordSearch({TECHS[k]}, t) THEN Capitalize(TECHS[k])
    ELSE FirstTech(t, k + 1)

UnsetSlots ==
    [site |-> None, area |-> None, type |-> None, status |-> None,
     date_from |-> None, date_to |-> None, technician |-> None]

\* tipo de orden: the "cm" test runs last and overwrites
TypeOf(t) ==
    IF WordSearch({"cm"}, t) THEN "CM"
    ELSE IF WordSearch({"pm"}, t) THEN "PM" ELSE None

\* variant: "cerrad" is tested before "abiert"
StatusOfClosedFirst(t) ==
    IF Contains("cerrad", t) THEN "Cerrada"
    ELSE IF Contains("abiert", t) THEN "Abierta"
    ELSE IF Contains("progreso", t) THEN "En Progreso"
    ELSE None

\* estado: the if / elif / elif chain
StatusOf(t) ==
    IF Contains("abiert", t) THEN "Abierta"
    ELSE IF Contains("cerrad", t) THEN "Cerrada"
    ELSE IF Contains("progreso", t) THEN "En Progreso"
    ELSE None

\* tecnico: looked for only behind the order-noun / status gate
TechnicianOf(t) ==
    IF WordSearch(ORDER_NOUNS, t)
       \/ (Contains("abiert", t) \/ Contains("cerrad", t))
    THEN FirstTech(t, 1) ELSE None

\* extract_slots(text) called at the instant `today`: the exception that
\* escapes (None when it returns), the dict, and the date rule that fired
extract_slots(s, today) ==
    LET t == _norm(s)
        d == _apply_date_pattern(t, today)
    IN  [raised |-> d.raised,
         rule |-> d.rule,
         slots |-> IF d.raised # None THEN UnsetSlots
                   ELSE [site |-> None, area |-> None, type |-> TypeOf(t),
                         status |-> StatusOf(t), date_from |-> d.date_from,
                         date_to |-> d.date_to,
                         technician |-> TechnicianOf(t)]]

(***************************************************************************)
(* Inputs                                                                  *)
(***************************************************************************)
\* most fragments in one message text
MaxFrags == 2
\* most characters in an input of the normalizer specification
MaxNormLen == 3

\* texts of at most k fragments of F, consecutive fragments joined by a
\* member of G
RECURSIVE TextsOf(_, _, _)
TextsOf(F, G, k) ==
    IF k <= 1 THEN F
    ELSE LET P == TextsOf(F, G, k - 1)
         IN  P \cup {p \o g \o f : p \in P, g \in G, f \in F}

\* messages about KPIs, orders, technicians and states
NLUFrags ==
    {"hola", "Ayuda", "mttr", "mtbf", "backlog", "costos", "downtime",
     "estado", "cumplimiento pm", "cuantas órdenes tiene",
     "juan cuantas ots", "cerrada hay", "tiene", "ordenes", "juan",
     "Andrés", "juanita", "abiertas", "progreso", "dimemttr", "xyzzy"}

\* messages about technicians and order states
SlotFrags ==
    {"ordenes", "OTS", "abiertas", "cerradas", "progreso", "andres",
     "Sebastián", "juan", "pablo abiertos", "juanita", "José", "cm", "pm",
     "xyzzy"}

\* messages with date expressions
DateFrags ==
    {"enero", "febrero", "Diciembre", "2024", "0000", "9999",
     "este mes", "mes pasado", "esta semana", "semana pasada",
     "últimos 30 días", "ultimos 740000 dias", "ultimos 999999999999 dias",
     "desde 2025-01-01 hasta 2025-05-01", "desde 2025-05-01 hasta 2025-01-01"}

\* characters of the inputs of the normalizer specification
NormChars == {"a", "B", "é", " ", "\t", Acute}

\* the chats that write to the bot
Chats == {1, 2}

\* the instant of the call: a Saturday, a Monday, a Sunday that is a leap day
RefDate == <<2025, 3, 15>>
NowDates == {RefDate, <<2024, 12, 30>>, <<2032, 2, 29>>}

\* messages with day windows and weeks
CalFrags ==
    {"últimos 30 días", "ultimos 0 dias", "ultimo 1 dias",
     "Ultimos  366  dias", "ultimos 59 dias", "esta semana",
     "semana pasada", "mttr"}

\* instants of the call: the two weeks around a new year, month ends in
\* leap and common years
CalDates ==
    {<<2024, 12, d>> : d \in 23..31} \cup {<<2025, 1, d>> : d \in 1..5}
        \cup {RefDate, <<2024, 2, 29>>, <<2024, 3, 1>>, <<2025, 3, 1>>,
              <<2025, 3, 31>>}

(***************************************************************************)
(* The functions applied to one message                                    *)
(***************************************************************************)
InitWith(T, D) ==
    /\ text \in T
    /\ now \in D
    /\ pc = "recv"
    /\ normed = None
    /\ renormed = None
    /\ greeting = FALSE
    /\ intent = None
    /\ ret_line = 0
    /\ slots = UnsetSlots
    /\ raised = None
    /\ date_rule = 0
    /\ reply = None
    /\ passed = {}
    /\ report_time = [c \in Chats |-> None]
    /\ jobs = {}
    /\ reports = [c \in Chats |-> 0]
    /\ subscribed = [c \in Chats |-> FALSE]
    /\ unsubscribed = [c \in Chats |-> FALSE]

Init == InitWith(TextsOf(NLUFrags, {" "}, MaxFrags), {RefDate})

InitSlots == InitWith(TextsOf(SlotFrags, {" "}, MaxFrags), {RefDate})

InitDates == InitWith(TextsOf(DateFrags, {" "}, MaxFrags), NowDates)

InitCal == InitWith(TextsOf(CalFrags, {" "}, MaxFrags), CalDates)

InitNorm == InitWith(TextsOf(NormChars, {""}, MaxNormLen) \cup {""}, {RefDate})

\* _norm(text)
Normalize ==
    /\ pc = "recv"
    /\ normed' = _norm(text)
    /\ pc' = "normed"
    /\ UNCHANGED <<text, now, renormed, greeting, intent, ret_line, slots,
                   raised, date_rule, hook_vars, sched_vars>>

\* _norm applied to its own result
Renormalize ==
    /\ pc = "normed"
    /\ renormed' = _norm(normed)
    /\ pc' = "renormed"
    /\ UNCHANGED <<text, now, normed, greeting, intent, ret_line, slots,
                   raised, date_rule, hook_vars, sched_vars>>

\* the greeting test the webhook makes on the text
Greeting ==
    /\ pc = "recv"
    /\ greeting' = is_greeting(text)
    /\ pc' = "greeted"
    /\ UNCHANGED <<text, now, normed, renormed, intent, ret_line, slots,
                   raised, date_rule, hook_vars, sched_vars>>

\* detect_intent(text)
DetectIntent ==
    /\ pc = "greeted"
    /\ \E r \in {detect_intent(text)} :
          intent' = r.name /\ ret_line' = r.line
    /\ pc' = "detected"
    /\ UNCHANGED <<text, now, normed, renormed, greeting, slots, raised,
                   date_rule, hook_vars, sched_vars>>

\* extract_slots(text)
ExtractSlots ==
    /\ pc = "recv"
    /\ \E r \in {extract_slots(text, now)} :
          slots' = r.slots /\ raised' = r.raised /\ date_rule' = r.rule
    /\ pc' = "extracted"
    /\ UNCHANGED <<text, now, normed, renormed, greeting, intent, ret_line,
                   hook_vars, sched_vars>>

Next == Normalize \/ Renormalize \/ Greeting \/ DetectIntent \/ ExtractSlots

NextNorm == Normalize \/ Renormalize

NextSlots == ExtractSlots

\* every function on messages about KPIs, orders and technicians
Spec == Init /\ [][Next]_vars

\* the slot extractor on messages about technicians and order states
SpecSlots == InitSlots /\ [][NextSlots]_vars

\* the slot extractor on messages with date expressions
SpecDates == InitDates /\ [][NextSlots]_vars

\* the slot extractor on day windows and weeks, at many instants
SpecCal == InitCal /\ [][NextSlots]_vars

\* the normalizer on short strings of every class of character
SpecNorm == InitNorm /\ [][NextNorm]_vars

(***************************************************************************)
(* telegram_webhook: replies and the NLU route                             *)
(***************************************************************************)
\* s.startswith(p)
StartsWith(s, p) == OccursAt(p, s, 1)

\* the prefixes of the commands, tested on text.lower()
COMMANDS == {"/version", "/setreport", "/subscribe", "/unsubscribe", "/testrun"}

IsCommand(s) == \E c \in COMMANDS : StartsWith(Lower(s), c)

\* the intents that need a range of dates
DATED_INTENTS ==
    {"MTTR", "MTBF", "PM_COMPLIANCE", "BACKLOG", "COSTS", "TOP_DOWNTIME",
     "STATUS_COUNTS", "TECH_BY_PERSON"}

\* variant: the month to date is written over whatever the extractor found
_ensure_month_default_always(s, today) ==
    [s EXCEPT !.date_from = IsoFormat(<<today[1], today[2], 1>>),
              !.date_to = IsoFormat(today)]

\* _ensure_month_default: first day of the month .. today, when the
\* extractor left both fields unset
_ensure_month_default(s, today) ==
    IF s.date_from = None /\ s.date_to = None
    THEN [s EXCEPT !.date_from = IsoFormat(<<today[1], today[2], 1>>),
                   !.date_to = IsoFormat(today)]
    ELSE s

\* the routing by intent: the reply, and the slots the function of data.py
\* gets (none when none is called).  A popped "status" reads as unset.
Route(name, s0, today) ==
    LET s == IF name \in DATED_INTENTS THEN _ensure_month_default(s0, today)
             ELSE s0
    IN  CASE name \in {"MTTR", "MTBF", "PM_COMPLIANCE", "BACKLOG", "COSTS",
                       "TOP_DOWNTIME"} -> [reply |-> name, passed |-> {s}]
          [] name = "STATUS_COUNTS" ->
                [reply |-> name, passed |-> {[s EXCEPT !.status = None]}]
          [] name = "TECH_BY_PERSON" ->
                IF s.technician = None
                THEN [reply |-> "which_technician", passed |-> {}]
                ELSE [reply |-> name, passed |-> {[s EXCEPT !.status = None]}]
          [] OTHER -> [reply |-> "sorry", passed |-> {}]

\* messages to the webhook
HookFrags ==
    {"hola", "Gracias", "/Version", "mttr", "costos", "estado",
     "juan abiertas", "juanito cerradas", "Pablo progreso",
     "cuantas ordenes tiene andres", "este mes", "enero 2024",
     "ultimos 740000 dias", "xyzzy"}

InitHook ==
    InitWith(TextsOf(HookFrags, {" "}, MaxFrags) \cup {" ", ""}, {RefDate})

\* the message has no text
HookEmpty ==
    /\ pc = "recv"
    /\ Strip(text) = ""
    /\ reply' = "none"
    /\ pc' = "replied"
    /\ UNCHANGED <<text, now, normed, renormed, greeting, intent, ret_line,
                   slots, raised, date_rule, passed, sched_vars>>

\* a greeting gets HELP_TEXT
HookGreeting ==
    /\ pc = "recv"
    /\ Strip(text) # ""
    /\ is_greeting(Strip(text))
    /\ greeting' = TRUE
    /\ reply' = "help_text"
    /\ pc' = "replied"
    /\ UNCHANGED <<text, now, normed, renormed, intent, ret_line, slots,
                   raised, date_rule, passed, sched_vars>>

\* a farewell gets the goodbye
HookFarewell ==
    /\ pc = "recv"
    /\ Strip(text) # ""
    /\ ~is_greeting(Strip(text))
    /\ is_farewell(Strip(text))
    /\ reply' = "farewell"
    /\ pc' = "replied"
    /\ UNCHANGED <<text, now, normed, renormed, greeting, intent, ret_line,
                   slots, raised, date_rule, passed, sched_vars>>

\* /version gets the version text
HookVersion ==
    /\ pc = "recv"
    /\ Strip(text) # ""
    /\ ~is_greeting(Strip(text))
    /\ ~is_farewell(Strip(text))
    /\ StartsWith(Lower(Strip(text)), "/version")
    /\ reply' = "version"
    /\ pc' = "replied"
    /\ UNCHANGED <<text, now, normed, renormed, greeting, intent, ret_line,
                   slots, raised, date_rule, passed, sched_vars>>

\* any other text: detect_intent, extract_slots, the default range, the
\* routing.  An exception of extract_slots ends the request (status 500).
HookNLU ==
    /\ pc = "recv"
    /\ Strip(text) # ""
    /\ ~is_greeting(Strip(text))
    /\ ~is_farewell(Strip(text))
    /\ ~IsCommand(Strip(text))
    /\ \E ri \in {detect_intent(Strip(text))},
          rs \in {extract_slots(Strip(text), now)} :
          /\ intent' = ri.name
          /\ ret_line' = ri.line
          /\ slots' = rs.slots
          /\ raised' = rs.raised
          /\ date_rule' = rs.rule
          /\ \E out \in {IF rs.raised # None
                         THEN [reply |-> "internal_error", passed |-> {}]
                         ELSE Route(ri.name, rs.slots, now)} :
                reply' = out.reply /\ passed' = out.passed
    /\ pc' = "replied"
    /\ UNCHANGED <<text, now, normed, renormed, greeting, sched_vars>>

NextHook ==
    HookEmpty \/ HookGreeting \/ HookFarewell \/ HookVersion \/ HookNLU

\* the webhook on messages about KPIs, technicians and dates
SpecHook == InitHook /\ [][NextHook]_vars

(***************************************************************************)
(* telegram_webhook: /setreport, /subscribe, /unsubscribe; the scheduler   *)
(***************************************************************************)
\* most daily reports sent to one chat
MaxReports == 1

\* s.split(sep) for a separator of one character
RECURSIVE SplitBy(_, _)
SplitBy(s, sep) ==
    LET hits == {i \in 1..Len(s) : CharAt(s, i) \in sep}
    IN  IF hits = {} THEN <<s>>
        ELSE <<SubSeq(s, 1, Min(hits) - 1)>>
                 \o SplitBy(SubSeq(s, Min(hits) + 1, Len(s)), sep)

\* s.split(): the runs of characters between whitespace
Words(s) == SelectSeq(SplitBy(s, WhitespaceChars), LAMBDA f : f # "")

\* int(f) succeeds: digits behind an optional sign
IsInt(f) ==
    LET body == IF f # "" /\ Head(f) \in {"+", "-"} THEN Tail(f) ELSE f
    IN  body # "" /\ AllDigits(body)

\* int(f)
IntOf(f) ==
    IF Head(f) = "-" THEN 0 - ParseInt(Tail(f))
    ELSE IF Head(f) = "+" THEN ParseInt(Tail(f))
    ELSE ParseInt(f)

\* f"{n:02d}"
Fmt02(n) == IF n < 0 THEN "-" \o Pad(0 - n, 1) ELSE Pad(n, 2)

\* CronTrigger(hour=hh, minute=mm) accepts the fields
CronOk(hh, mm) == hh \in 0..23 /\ mm \in 0..59

\* f"rep_{chat_id}"
JobId(c) == "rep_" \o Pad(c, 1)

\* scheduler.add_job(..., id=f"rep_{chat_id}", replace_existing=True)
add_job(J, c, hh, mm) ==
    {j \in J : j.id # JobId(c)}
        \cup {[id |-> JobId(c), hour |-> hh, minute |-> mm]}

\* the branch of telegram_webhook that handles the text m
Branch(m) ==
    LET t == Strip(m)
        low == Lower(t)
    IN  IF t = "" THEN "empty"
        ELSE IF is_greeting(t) THEN "greeting"
        ELSE IF is_farewell(t) THEN "farewell"
        ELSE IF StartsWith(low, "/version") THEN "/version"
        ELSE IF StartsWith(low, "/setreport") THEN "/setreport"
        ELSE IF StartsWith(low, "/subscribe") THEN "/subscribe"
        ELSE IF StartsWith(low, "/unsubscribe") THEN "/unsubscribe"
        ELSE IF StartsWith(low, "/testrun") THEN "/testrun"
        ELSE "nlu"

\* what the /setreport branch makes of the text m, up to the call of
\* set_report_time: the reply when it stops before, else hh, mm and hhmm
ParseSetReport(m) ==
    LET parts == Words(Strip(m))
        f == SplitBy(parts[2], {":"})
    IN  IF Len(parts) # 2 \/ ~Contains(":", parts[2])
        THEN [reply |-> "invalid_format", hh |-> 0, mm |-> 0, hhmm |-> None]
        ELSE IF Len(f) # 2 \/ ~IsInt(f[1]) \/ ~IsInt(f[2])
        THEN [reply |-> "not_interpreted", hh |-> 0, mm |-> 0, hhmm |-> None]
        ELSE [reply |-> None, hh |-> IntOf(f[1]), mm |-> IntOf(f[2]),
              hhmm |-> Fmt02(IntOf(f[1])) \o ":" \o Fmt02(IntOf(f[2]))]

\* hh and mm of a stored report_time: map(int, hhmm.split(":"))
ParseTime(hhmm) ==
    [hh |-> IntOf(SplitBy(hhmm, {":"})[1]), mm |-> IntOf(SplitBy(hhmm, {":"})[2])]

\* the messages about daily reports
SchedTexts ==
    {"/subscribe", "/unsubscribe", "/setreport 07:00", "/SetReport 7:5",
     "/setreport 25:00", "/setreport ab:cd", "/setreport 1:2:3",
     "/setreport 0700"}

\* the texts of SchedTexts by the branch that handles them
SetReportTexts == {m \in SchedTexts : Branch(m) = "/setreport"}
SubscribeTexts == {m \in SchedTexts : Branch(m) = "/subscribe"}
UnsubscribeTexts == {m \in SchedTexts : Branch(m) = "/unsubscribe"}

\* ParseSetReport on the texts of the /setreport branch
SetReportParsed == [m \in SetReportTexts |-> ParseSetReport(m)]

InitSched == InitWith({""}, {RefDate})

\* chat c sends the text m, a "/setreport ..."
SetReport(c, m) ==
    /\ m \in SetReportTexts
    /\ unsubscribed' = [unsubscribed EXCEPT ![c] = FALSE]
    /\ \E r \in {SetReportParsed[m]} :
          IF r.reply # None
          THEN /\ reply' = r.reply
               /\ UNCHANGED <<report_time, jobs>>
          ELSE /\ report_time' = [report_time EXCEPT ![c] = r.hhmm]
               /\ IF CronOk(r.hh, r.mm)
                  THEN /\ jobs' = add_job(jobs, c, r.hh, r.mm)
                       /\ reply' = "report_time_set"
                  ELSE /\ jobs' = jobs              \* CronTrigger raises
                       /\ reply' = "not_interpreted"
    /\ UNCHANGED <<text, now, pc, normed, renormed, greeting, intent,
                   ret_line, slots, raised, date_rule, passed, reports,
                   subscribed>>

\* chat c sends the text m, a "/subscribe"
Subscribe(c, m) ==
    /\ m \in SubscribeTexts
    /\ subscribed' = [subscribed EXCEPT ![c] = TRUE]
    /\ unsubscribed' = [unsubscribed EXCEPT ![c] = FALSE]
    /\ \E hhmm \in {IF report_time[c] # None THEN report_time[c] ELSE "07:00"} :
          /\ report_time' = [report_time EXCEPT ![c] = hhmm]
          /\ \E t \in {ParseTime(hhmm)} :
                IF CronOk(t.hh, t.mm)
                THEN /\ jobs' = add_job(jobs, c, t.hh, t.mm)
                     /\ reply' = "subscribed"
                ELSE /\ jobs' = jobs                \* CronTrigger raises
                     /\ reply' = "internal_error"
    /\ UNCHANGED <<text, now, pc, normed, renormed, greeting, intent,
                   ret_line, slots, raised, date_rule, passed, reports>>

\* chat c sends the text m, an "/unsubscribe"
Unsubscribe(c, m) ==
    /\ m \in UnsubscribeTexts
    /\ jobs' = {j \in jobs : j.id # JobId(c)}
    /\ report_time' = [report_time EXCEPT ![c] = None]
    /\ subscribed' = [subscribed EXCEPT ![c] = FALSE]
    /\ unsubscribed' = [unsubscribed EXCEPT ![c] = TRUE]
    /\ reply' = "unsubscribed"
    /\ UNCHANGED <<text, now, pc, normed, renormed, greeting, intent,
                   ret_line, slots, raised, date_rule, passed, reports>>

\* the application restarts: the scheduler starts empty and _startup adds a
\* job for every stored report_time that CronTrigger accepts
Restart ==
    /\ jobs' = {[id |-> JobId(c), hour |-> ParseTime(report_time[c]).hh,
                 minute |-> ParseTime(report_time[c]).mm] :
                c \in {x \in Chats :
                         /\ report_time[x] # None
                         /\ CronOk(ParseTime(report_time[x]).hh,
                                   ParseTime(report_time[x]).mm)}}
    /\ jobs' # jobs
    /\ UNCHANGED <<text, now, pc, normed, renormed, greeting, intent,
                   ret_line, slots, raised, date_rule, hook_vars,
                   report_time, reports, subscribed, unsubscribed>>

\* the scheduler fires the job of chat c: send_daily_report(c)
RunJob(c) ==
    /\ \E j \in jobs : j.id = JobId(c)
    /\ reports[c] < MaxReports
    /\ reports' = [reports EXCEPT ![c] = reports[c] + 1]
    /\ UNCHANGED <<text, now, pc, normed, renormed, greeting, intent,
                   ret_line, slots, raised, date_rule, hook_vars,
                   report_time, jobs, subscribed, unsubscribed>>

NextSched ==
    \/ \E c \in Chats, m \in SchedTexts : SetReport(c, m)
    \/ \E c \in Chats, m \in SchedTexts : Subscribe(c, m)
    \/ \E c \in Chats, m \in SchedTexts : Unsubscribe(c, m)
    \/ Restart
    \/ \E c \in Chats : RunJob(c)

\* the commands about daily reports, restarts and the scheduler's runs
SpecSched == InitSched /\ [][NextSched]_vars


(***************************************************************************)
(* Properties                                                              *)
(***************************************************************************)
\* the text holds no greeting, an order noun as a whole word, and no
\* technician name
BareOrderQuestion(t) ==
    /\ ~AnyIn(GREETINGS, t)
    /\ WordSearch({"ordenes", "ots"}, t)
    /\ \A k \in 1..Len(TECHS) : ~Contains(TECHS[k], t)

\* C1: a text with no greeting phrase, with an order noun as a whole word
\* and with no technician name is answered STATUS_COUNTS by detect_intent,
\* whichever patterns of the intent table match it.
C1_OverrideWins ==
    pc = "detected" /\ BareOrderQuestion(_norm(text))
        => intent = "STATUS_COUNTS"

\* a bare order question that the technician-quantity pattern matches
C1_Witness ==
    /\ pc = "detected"
    /\ BareOrderQuestion(_norm(text))
    /\ PatMatch(8, StripFiller(_norm(text)))
    /\ intent = "STATUS_COUNTS"

\* C2: when the normalized text holds a greeting phrase, detect_intent
\* returns HELP whatever else the text holds, and the greeting test of the
\* webhook and the greeting test inside detect_intent give the same answer.
C2_GreetingIsHelp ==
    pc = "detected" =>
        LET g == \E k \in 1..Len(GREETINGS) : Contains(GREETINGS[k], _norm(text))
        IN  /\ g => intent = "HELP"
            /\ greeting = g
            /\ greeting <=> ret_line = 63

\* a greeting in front of an order noun or of a KPI keyword
C2_Witness ==
    /\ pc = "detected"
    /\ greeting
    /\ \/ WordSearch(ORDER_NOUNS, _norm(text))
       \/ \E k \in 1..Len(INTENTS) : PatMatch(k, StripFiller(_norm(text)))
    /\ intent = "HELP"

\* C3: when detect_intent gets to the pattern table, it returns the label
\* of the first pattern that matches the filler-stripped text, in the order
\* MTTR, MTBF, PM_COMPLIANCE, BACKLOG, COSTS, TOP_DOWNTIME, STATUS_COUNTS,
\* TECH_BY_PERSON, STATUS_COUNTS; never the label of a later pattern.
C3_FirstPatternWins ==
    pc = "detected" /\ ret_line \notin {63, 71} =>
        LET t2 == StripFiller(_norm(text))
            order == <<"MTTR", "MTBF", "PM_COMPLIANCE", "BACKLOG", "COSTS",
                       "TOP_DOWNTIME", "STATUS_COUNTS", "TECH_BY_PERSON",
                       "STATUS_COUNTS">>
        IN  \A k \in 1..9 :
                PatMatch(k, t2) /\ (\A j \in 1..(k - 1) : ~PatMatch(j, t2))
                    => intent = order[k] /\ ret_line = 77

\* a text that two patterns with different labels match
C3_Witness ==
    /\ pc = "detected"
    /\ ret_line = 77
    /\ \E j, k \in 1..Len(INTENTS) :
          /\ j < k
          /\ INTENTS[j] # INTENTS[k]
          /\ PatMatch(j, StripFiller(_norm(text)))
          /\ PatMatch(k, StripFiller(_norm(text)))
          /\ intent = INTENTS[j]

\* C6: the normalizer is idempotent, and its result has no whitespace at
\* either end.
C6_Idempotent ==
    pc = "renormed" =>
        /\ renormed = normed
        /\ ~IsSpace(CharAt(normed, 1))
        /\ ~IsSpace(CharAt(normed, Len(normed)))

\* a <= b for two strings of digits and hyphens, as Python compares strings
RECURSIVE StrLeq(_, _)
StrLeq(a, b) ==
    IF a = "" THEN TRUE
    ELSE IF b = "" THEN FALSE
    ELSE IF Head(a) = Head(b) THEN StrLeq(Tail(a), Tail(b))
    ELSE IndexIn(Head(a), "-0123456789") < IndexIn(Head(b), "-0123456789")

\* C4: in every dict extract_slots returns, when date_from and date_to are
\* both set, date_from <= date_to.
C4_FromNotAfterTo ==
    pc = "extracted" /\ raised = None
    /\ slots.date_from # None /\ slots.date_to # None
        => StrLeq(slots.date_from, slots.date_to)

\* C5: extract_slots raises no error, whatever the text: it returns a dict
\* whose underivable fields are null.
C5_NeverRaises == pc = "extracted" => raised = None

\* C7: technician is set only when the normalized text holds an order noun
\* or one of the stems "abiert" / "cerrad", and then it is the capitalized
\* form of the first name of the roster, in roster order, that occurs in the
\* text as a whole word; so it is unset or a member of the roster.
C7_TechnicianFromRoster ==
    pc = "extracted" /\ raised = None /\ slots.technician # None =>
        LET t == _norm(text)
            roster == <<"andres", "esteban", "juan", "sebastian", "mateo",
                        "jose", "pablo">>
            shown == <<"Andres", "Esteban", "Juan", "Sebastian", "Mateo",
                       "Jose", "Pablo">>
        IN  /\ \/ WordSearch({"ordenes", "ots"}, t)
               \/ Contains("abiert", t)
               \/ Contains("cerrad", t)
            /\ \E k \in 1..7 :
                  /\ WordSearch({roster[k]}, t)
                  /\ \A j \in 1..(k - 1) : ~WordSearch({roster[j]}, t)
                  /\ slots.technician = shown[k]

\* two names of the roster in one text, the earlier of the roster captured
C7_Witness ==
    /\ pc = "extracted"
    /\ raised = None
    /\ \E j, k \in 1..Len(TECHS) :
          /\ j < k
          /\ WordSearch({TECHS[j]}, _norm(text))
          /\ WordSearch({TECHS[k]}, _norm(text))
          /\ slots.technician = Capitalize(TECHS[j])

\* C8: status is Abierta whenever the text holds "abiert"; Cerrada only
\* when it holds "cerrad" and not "abiert"; En Progreso only when it holds
\* "progreso" and neither of the other two; unset otherwise.
C8_StatusPrecedence ==
    pc = "extracted" /\ raised = None =>
        LET t == _norm(text)
            a == Contains("abiert", t)
            c == Contains("cerrad", t)
            p == Contains("progreso", t)
        IN  /\ slots.status \in {"Abierta", "Cerrada", "En Progreso", None}
            /\ a => slots.status = "Abierta"
            /\ slots.status = "Cerrada" <=> (c /\ ~a)
            /\ slots.status = "En Progreso" <=> (p /\ ~a /\ ~c)
            /\ slots.status = None <=> (~a /\ ~c /\ ~p)

\* "abiert" and "cerrad" in one text
C8_Witness ==
    /\ pc = "extracted"
    /\ raised = None
    /\ Contains("abiert", _norm(text))
    /\ Contains("cerrad", _norm(text))
    /\ slots.status = "Abierta"

\* the rules whose trigger phrase is in t
Triggered(t) == {r \in 1..7 : Trigger(r, t)}

\* the range rule r gives for text t at the instant `today`
RuleResult(r, t, today) ==
    CASE r = 1 -> _month_range_from_name(t, today)
      [] r = 2 -> EsteMes(today)
      [] r = 3 -> MesPasado(today)
      [] r = 4 -> EstaSemana(today)
      [] r = 5 -> SemanaPasada(today)
      [] r = 6 -> Ultimos(t, today)
      [] r = 7 -> Desde(t)

\* C9: exactly one rule of the date resolver fires, the one of highest
\* priority among those whose trigger phrase is in the text (named month,
\* este mes, mes pasado, esta semana, semana pasada, ultimos N dias, desde X
\* hasta Y), and the range produced is that rule's; with no trigger phrase
\* both date fields are null.
C9_HighestPriorityRule ==
    pc = "extracted" =>
        LET t == _norm(text)
        IN  IF Triggered(t) = {}
            THEN /\ date_rule = 0
                 /\ raised = None
                 /\ slots.date_from = None
                 /\ slots.date_to = None
            ELSE /\ date_rule = Min(Triggered(t))
                 /\ raised = None =>
                       /\ slots.date_from = RuleResult(date_rule, t, now).date_from
                       /\ slots.date_to = RuleResult(date_rule, t, now).date_to
                       /\ slots.date_from # None
                       /\ slots.date_to # None

\* the trigger phrases of two rules in one text
C9_Witness ==
    /\ pc = "extracted"
    /\ raised = None
    /\ Cardinality(Triggered(_norm(text))) >= 2
    /\ date_rule = Min(Triggered(_norm(text)))

\* the year the named-month rule works with: the four digits behind the
\* leftmost whole-word occurrence of name, else the year of `today`
NamedYear(t, name, today) ==
    LET e == Min(WordStarts({name}, t)) + Len(name)
        j == SkipWs(t, e)
    IN  IF j > e /\ j + 3 <= Len(t) /\ AllDigits(SubSeq(t, j, j + 3))
        THEN ParseInt(SubSeq(t, j, j + 3))
        ELSE today[1]

\* C10: for every month name of the table (septiembre and setiembre are
\* both month 9) and every year of the calendar given in the text, or the
\* reference year when none is given, the named-month rule yields the
\* first and the last calendar day of that month of that year.
C10_NamedMonthRange ==
    pc = "extracted" =>
        LET t == _norm(text)
            names == <<"enero", "febrero", "marzo", "abril", "mayo", "junio",
                       "julio", "agosto", "septiembre", "setiembre",
                       "octubre", "noviembre", "diciembre">>
            number == <<1, 2, 3, 4, 5, 6, 7, 8, 9, 9, 10, 11, 12>>
        IN  \A k \in 1..13 :
                /\ WordSearch({names[k]}, t)
                /\ \A j \in 1..(k - 1) : ~WordSearch({names[j]}, t)
                /\ NamedYear(t, names[k], now) \in 1..9999
                => LET y == NamedYear(t, names[k], now)
                   IN  /\ raised = None
                       /\ slots.date_from = IsoFormat(<<y, number[k], 1>>)
                       /\ slots.date_to =
                            IsoFormat(<<y, number[k], DaysInMonth(y, number[k])>>)

\* the calendar day before d
PrevDay(d) ==
    IF d[3] > 1 THEN <<d[1], d[2], d[3] - 1>>
    ELSE IF d[2] > 1 THEN <<d[1], d[2] - 1, DaysInMonth(d[1], d[2] - 1)>>
    ELSE <<d[1] - 1, 12, 31>>

\* the calendar day n days before d, walking back a month at a time
RECURSIVE DaysBack(_, _)
DaysBack(d, n) ==
    IF n < d[3] THEN <<d[1], d[2], d[3] - n>>
    ELSE DaysBack(PrevDay(<<d[1], d[2], 1>>), n - d[3])

\* the N of the leftmost "ultimos N dias" of t
WindowDays(t) ==
    LET a == UltimosHead(t, Min({i \in 1..Len(t) : UltimosAt(t, i)}))
    IN  ParseInt(SubSeq(t, a, SkipDigits(t, a) - 1))

\* C11: a text with "ultimos N dias" and no date phrase of higher priority,
\* N within the calendar, resolves to date_to = the reference date and
\* date_from = the reference date minus exactly N calendar days, across
\* month and year boundaries.
C11_LastNDays ==
    pc = "extracted" /\ Triggered(_norm(text)) # {}
    /\ Min(Triggered(_norm(text))) = 6
    /\ WindowDays(_norm(text)) < ToOrdinal(now)
        => /\ raised = None
           /\ slots.date_to = IsoFormat(now)
           /\ slots.date_from = IsoFormat(DaysBack(now, WindowDays(_norm(text))))

\* reference 2025-03-15 and N = 30: 2025-02-13 .. 2025-03-15
C11_Witness ==
    /\ pc = "extracted"
    /\ now = <<2025, 3, 15>>
    /\ date_rule = 6
    /\ WindowDays(_norm(text)) = 30
    /\ slots.date_from = "2025-02-13"
    /\ slots.date_to = "2025-03-15"

\* the Monday of the week of d
MondayOf(d) == CHOOSE m \in {DaysBack(d, k) : k \in 0..6} : Weekday(m) = 0

\* C12: "semana pasada" resolves to a range from a Monday to the Sunday six
\* days later, that Sunday being the day before the Monday of the reference
\* week; "esta semana" resolves to the Monday of the reference week through
\* the reference date; at every reference date, Mondays and Sundays included.
C12_Weeks ==
    pc = "extracted" /\ Triggered(_norm(text)) # {} =>
        LET h == Min(Triggered(_norm(text)))
            mon == MondayOf(now)
            sun == PrevDay(mon)
        IN  /\ h = 5 =>
                /\ raised = None
                /\ slots.date_to = IsoFormat(sun)
                /\ Weekday(sun) = 6
                /\ slots.date_from = IsoFormat(DaysBack(sun, 6))
                /\ Weekday(DaysBack(sun, 6)) = 0
            /\ h = 4 =>
                /\ raised = None
                /\ slots.date_from = IsoFormat(mon)
                /\ slots.date_to = IsoFormat(now)

\* "semana pasada" asked on a Sunday, the week before crossing a year end
C12_Witness ==
    /\ pc = "extracted"
    /\ date_rule = 5
    /\ raised = None
    /\ now = <<2025, 1, 5>>
    /\ Weekday(now) = 6
    /\ slots.date_from = "2024-12-23"
    /\ slots.date_to = "2024-12-29"

\* the labels detect_intent can return
IntentValues ==
    {"MTTR", "MTBF", "PM_COMPLIANCE", "BACKLOG", "COSTS", "TOP_DOWNTIME",
     "STATUS_COUNTS", "TECH_BY_PERSON", "HELP"}

\* no greeting in t, the order-noun override does not catch t, and no
\* pattern of the table matches t without its fillers
ReachesFallback(t) ==
    /\ ~AnyIn(GREETINGS, t)
    /\ ~(WordSearch({"ordenes", "ots"}, t)
         /\ \A k \in 1..Len(TECHS) : ~Contains(TECHS[k], t))
    /\ \A k \in 1..Len(INTENTS) : ~PatMatch(k, StripFiller(t))

\* C14: detect_intent always returns one of the nine labels; on a text with
\* no greeting, not caught by the override and matching no pattern, it
\* returns TECH_BY_PERSON if and only if the text mentions a technician of
\* the roster and one of "abiert" / "cerrad" / "progreso", and HELP otherwise.
C14_FallbackThenHelp ==
    pc = "detected" =>
        /\ intent \in IntentValues
        /\ ReachesFallback(_norm(text)) =>
              LET t == _norm(text)
                  names == {"andres", "esteban", "juan", "sebastian", "mateo",
                            "jose", "pablo"}
                  person == \E n \in names : Contains(n, t)
                  state == \E w \in {"abiert", "cerrad", "progreso"} :
                              Contains(w, t)
              IN  /\ intent = "TECH_BY_PERSON" <=> (person /\ state)
                  /\ intent = "HELP" <=> ~(person /\ state)

\* the fallback taken for a technician name with only "progreso"
C14_Witness ==
    /\ pc = "detected"
    /\ ReachesFallback(_norm(text))
    /\ intent = "TECH_BY_PERSON"
    /\ Contains("progreso", _norm(text))
    /\ ~Contains("abiert", _norm(text))
    /\ ~Contains("cerrad", _norm(text))

\* C13: whenever the webhook hands slots to a function of data.py, both
\* date fields are set: they are the month to date exactly when the
\* extractor left both unset, and the extractor's dates otherwise; and
\* every message routed to an intent other than HELP hands slots over,
\* unless it is a question about a technician that names none.
C13_DatesAlwaysPassed ==
    pc = "replied" /\ intent # None /\ raised = None =>
        /\ \A p \in passed :
              /\ intent \in IntentValues \ {"HELP"}
              /\ p.date_from # None
              /\ p.date_to # None
              /\ IF slots.date_from = None /\ slots.date_to = None
                 THEN /\ p.date_from = IsoFormat(<<now[1], now[2], 1>>)
                      /\ p.date_to = IsoFormat(now)
                 ELSE /\ p.date_from = slots.date_from
                      /\ p.date_to = slots.date_to
        /\ passed = {} =>
              \/ intent = "HELP"
              \/ intent = "TECH_BY_PERSON" /\ slots.technician = None

\* a KPI asked for a named month, and the month's range handed over
C13_Witness ==
    /\ pc = "replied"
    /\ intent = "MTTR"
    /\ date_rule = 1
    /\ \E p \in passed : p.date_from = "2024-01-01" /\ p.date_to = "2024-01-31"

\* C15: on every text for which detect_intent returns TECH_BY_PERSON,
\* extract_slots sets technician to a name of the roster, so the branch of
\* the webhook for that intent has a technician to look up.
C15_TechnicianKnown ==
    pc = "replied" /\ intent = "TECH_BY_PERSON" /\ raised = None =>
        /\ slots.technician \in {"Andres", "Esteban", "Juan", "Sebastian",
                                 "Mateo", "Jose", "Pablo"}
        /\ reply = "TECH_BY_PERSON"

\* the jobs of chat c
JobsOf(c) == {j \in jobs : j.id = JobId(c)}

\* at most one job per chat; a job exactly for the chats with a stored
\* report_time, at the stored hour and minute
JobsMatchTimes ==
    \A c \in Chats :
        /\ Cardinality(JobsOf(c)) <= 1
        /\ JobsOf(c) # {} <=> report_time[c] # None
        /\ \A j \in JobsOf(c) :
              report_time[c] = Fmt02(j.hour) \o ":" \o Fmt02(j.minute)

\* a /setreport answered "could not interpret" changes neither table
RejectedSetReportKeepsAll ==
    \A c \in Chats, m \in SetReportTexts :
        SetReport(c, m) /\ reply' = "not_interpreted"
            => report_time' = report_time /\ jobs' = jobs

\* C16: after any sequence of /subscribe, /unsubscribe and /setreport from
\* any chats, with any argument, the scheduler holds at most one job per
\* chat, a job rep_<chat_id> exists if and only if a report_time is stored
\* for the chat, at the stored hour and minute; and a /setreport answered
\* "could not interpret that time" leaves report_time and the job as they
\* were.
C16_JobsFollowReportTimes ==
    []JobsMatchTimes /\ [][RejectedSetReportKeepsAll]_vars

\* C17: once a chat's /unsubscribe is handled, no daily report is sent to it
\* until it sends /subscribe or /setreport, restarts included; and after
\* /subscribe the chat has a job, restored by every restart, until
\* /unsubscribe.
C17_UnsubscribeStopsReports ==
    /\ [](\A c \in Chats : unsubscribed[c] => JobsOf(c) = {})
    /\ [][\A c \in Chats : unsubscribed[c] => reports'[c] = reports[c]]_vars
    /\ [](\A c \in Chats : subscribed[c] => JobsOf(c) # {})

====
